---------------------------- MODULE Spec2Model ----------------------------
(***************************************************************************)
(* Wallet risk scoring for the Compound protocol: the scoring engine       *)
(* (risk_scorer.py), the metrics normalizer and the chain data provider    *)
(* (compound_data_fetcher.py) and the batch pipeline (main.py).            *)
(*                                                                         *)
(* Number representation.  Python floats and ints that carry measured     *)
(* quantities (ETH amounts, rates, day counts) are exact rationals        *)
(* <<n, d>> with d > 0, compared by cross multiplication.  Factor scores  *)
(* and weights are integers in hundredths (0.05 is 5), weighted_score is  *)
(* [exact |-> n, below |-> b]: n in units of 1/10000 is the sum in exact   *)
(* arithmetic, and b says that the float sum the engine computed is        *)
(* smaller than it by a rounding error (0.6 * 0.2 + ... comes to           *)
(* 0.6749999999999999 where the exact sum is 0.675), which decides         *)
(* int(weighted_score * 1000) when 1000 times the exact sum is a whole     *)
(* number.  Which sums round below is not computed: every scoring takes    *)
(* either value of b, and b is kept only where it decides the integer.     *)
(* All other arithmetic is exact.  Raw transaction values are in units of  *)
(* 10^15 wei, so one ETH (10**18 wei) is UnitsPerEth of them.              *)
(*                                                                         *)
(* A Python dict is a function whose DOMAIN is the set of its keys; a     *)
(* raised exception is the record [exception |-> str(e)].                 *)
(***************************************************************************)
EXTENDS Integers, Sequences, FiniteSets, TLC

VARIABLES
    wallet_addresses,   \* process_wallet_list: the list read from the input table
    delay_seconds,      \* process_wallet_list: the delay parameter, in tenths of a second
    i,                  \* process_wallet_list: the loop counter of enumerate(.., 1)
    pc,                 \* the position of the single thread of control
    results,            \* process_wallet_list: the local list `results`
    temp_file,          \* the rows of temp_<output_file>, the checkpoint
    output_file,        \* the rows of <output_file>, the final table
    tx_data,            \* process_wallet: local tx_data
    tx_metrics,         \* process_wallet: local tx_metrics
    compound_data,      \* process_wallet: local compound_data
    balance_data,       \* process_wallet: local balance_data
    result,             \* process_wallet's return value / calculate_risk_score's outcome
    summary,            \* _print_summary_statistics: the figures printed
    faults              \* number of environment faults injected so far

vars == <<wallet_addresses, delay_seconds, i, pc, results, temp_file, output_file,
          tx_data, tx_metrics, compound_data, balance_data, result, summary, faults>>

-----------------------------------------------------------------------------
(* Bounds of the model *)

\* longest wallet list of the batch run
MaxWallets == 10
\* wallet lists up to this length are enumerated exhaustively
ShortLen == 2
\* most environment faults (provider, checkpoint write, delay) in one run
MaxFaults == 1

-----------------------------------------------------------------------------
(* Python values *)

None == [none |-> TRUE]
EmptyDict == [k \in {} |-> 0]
\* the outcome of an expression that can raise: Ok(value), or Raise(str(e))
Raise(msg) == [exception |-> msg]
Ok(v) == [value |-> v]
IsRaise(x) == "exception" \in DOMAIN x
Get(d, k, default) == IF k \in DOMAIN d THEN d[k] ELSE default

Rat(n, d) == <<n, d>>
Zero == Rat(0, 1)
One == Rat(1, 1)
GE(x, y) == x[1] * y[2] >= y[1] * x[2]
GT(x, y) == x[1] * y[2] > y[1] * x[2]
LE(x, y) == x[1] * y[2] <= y[1] * x[2]
LT(x, y) == x[1] * y[2] < y[1] * x[2]
EQ(x, y) == x[1] * y[2] = y[1] * x[2]
RMax(x, y) == IF GE(x, y) THEN x ELSE y
\* x / y; Python raises ZeroDivisionError when y is zero
RDiv(x, y) == IF y[1] = 0 THEN Raise("division by zero")
              ELSE Ok(Rat(x[1] * y[2], x[2] * y[1]))

IMax(a, b) == IF a >= b THEN a ELSE b
IMin(a, b) == IF a <= b THEN a ELSE b

-----------------------------------------------------------------------------
(* risk_scorer.py: WalletRiskScorer *)

Factors == {"transaction_volume", "transaction_frequency", "protocol_experience",
            "balance_stability", "failure_rate", "counterparty_diversity",
            "recent_activity"}

\* self.weights, in hundredths
weights == [transaction_volume |-> 20, transaction_frequency |-> 15,
            protocol_experience |-> 25, balance_stability |-> 15,
            failure_rate |-> 10, counterparty_diversity |-> 10,
            recent_activity |-> 5]

\* variant: the bucket bounds are exclusive
VolumeScoreStrict(metrics) ==
    LET volume_eth == Get(metrics, "total_value_eth", Zero) IN
    IF GT(volume_eth, Rat(1000, 1)) THEN 10
    ELSE IF GT(volume_eth, Rat(100, 1)) THEN 20
    ELSE IF GT(volume_eth, Rat(10, 1)) THEN 40
    ELSE IF GT(volume_eth, Rat(1, 1)) THEN 60
    ELSE 90

calculate_transaction_volume_score(metrics) ==
    LET volume_eth == Get(metrics, "total_value_eth", Zero) IN
    IF GE(volume_eth, Rat(1000, 1)) THEN 10
    ELSE IF GE(volume_eth, Rat(100, 1)) THEN 20
    ELSE IF GE(volume_eth, Rat(10, 1)) THEN 40
    ELSE IF GE(volume_eth, Rat(1, 1)) THEN 60
    ELSE 90

calculate_frequency_score(metrics) ==
    LET frequency == Get(metrics, "transaction_frequency", Zero) IN
    IF GE(frequency, Rat(1, 1)) THEN 10
    ELSE IF GE(frequency, Rat(1, 2)) THEN 20
    ELSE IF GE(frequency, Rat(1, 10)) THEN 40
    ELSE IF GT(frequency, Zero) THEN 70
    ELSE 100

\* variant: the scores of the two middle buckets are exchanged
ProtocolExperienceSwapped(cdata) ==
    LET compound_count == Get(cdata, "compound_count", Zero) IN
    IF GE(compound_count, Rat(50, 1)) THEN 5
    ELSE IF GE(compound_count, Rat(20, 1)) THEN 15
    ELSE IF GE(compound_count, Rat(10, 1)) THEN 50
    ELSE IF GE(compound_count, Rat(5, 1)) THEN 30
    ELSE IF GT(compound_count, Zero) THEN 70
    ELSE 95

calculate_protocol_experience_score(cdata) ==
    LET compound_count == Get(cdata, "compound_count", Zero) IN
    IF GE(compound_count, Rat(50, 1)) THEN 5
    ELSE IF GE(compound_count, Rat(20, 1)) THEN 15
    ELSE IF GE(compound_count, Rat(10, 1)) THEN 30
    ELSE IF GE(compound_count, Rat(5, 1)) THEN 50
    ELSE IF GT(compound_count, Zero) THEN 70
    ELSE 95

\* variant: the two ratio tests are inclusive
BalanceStabilityInclusive(bdata, metrics) ==
    LET current_balance == Get(bdata, "current_balance_eth", Zero)
        volume_eth == Get(metrics, "total_value_eth", Zero)
        balance_to_volume_ratio ==
            RDiv(current_balance, RMax(volume_eth, Rat(1, 1000))).value
        base_score == IF GE(current_balance, Rat(100, 1)) THEN 5
                      ELSE IF GE(current_balance, Rat(10, 1)) THEN 15
                      ELSE IF GE(current_balance, Rat(1, 1)) THEN 30
                      ELSE IF GE(current_balance, Rat(1, 10)) THEN 60
                      ELSE 90
        adjustment == IF GE(balance_to_volume_ratio, Rat(1, 10)) THEN -10
                      ELSE IF LE(balance_to_volume_ratio, Rat(1, 100)) THEN 20
                      ELSE 0
    IN  base_score + adjustment

BalanceStabilityUnclamped(bdata, metrics) ==
    LET current_balance == Get(bdata, "current_balance_eth", Zero)
        volume_eth == Get(metrics, "total_value_eth", Zero)
        balance_to_volume_ratio ==
            RDiv(current_balance, RMax(volume_eth, Rat(1, 1000))).value
        base_score == IF GE(current_balance, Rat(100, 1)) THEN 5
                      ELSE IF GE(current_balance, Rat(10, 1)) THEN 15
                      ELSE IF GE(current_balance, Rat(1, 1)) THEN 30
                      ELSE IF GE(current_balance, Rat(1, 10)) THEN 60
                      ELSE 90
        adjustment == IF GT(balance_to_volume_ratio, Rat(1, 10)) THEN -10
                      ELSE IF LT(balance_to_volume_ratio, Rat(1, 100)) THEN 20
                      ELSE 0
    IN  base_score + adjustment

\* variant: the score is returned without the clamp to [0, 1]
BalanceStabilityNoClamp(bdata, metrics) == BalanceStabilityUnclamped(bdata, metrics)

calculate_balance_stability_score(bdata, metrics) ==
    IMax(0, IMin(100, BalanceStabilityUnclamped(bdata, metrics)))

calculate_failure_rate_score(metrics) ==
    LET failure_rate == Get(metrics, "failed_transaction_rate", Zero) IN
    IF EQ(failure_rate, Zero) THEN 0
    ELSE IF LE(failure_rate, Rat(2, 100)) THEN 10
    ELSE IF LE(failure_rate, Rat(5, 100)) THEN 30
    ELSE IF LE(failure_rate, Rat(1, 10)) THEN 60
    ELSE 100

DiversityNoRatio(metrics) ==
    LET unique_counterparties == Get(metrics, "unique_counterparties", Zero) IN
    IF GE(unique_counterparties, Rat(100, 1)) THEN 5
    ELSE IF GE(unique_counterparties, Rat(50, 1)) THEN 15
    ELSE IF GE(unique_counterparties, Rat(20, 1)) THEN 30
    ELSE IF GE(unique_counterparties, Rat(10, 1)) THEN 50
    ELSE IF GT(unique_counterparties, Zero) THEN 80
    ELSE 100

\* the unused diversity_ratio is still evaluated, and its division can raise
calculate_counterparty_diversity_score(metrics) ==
    LET unique_counterparties == Get(metrics, "unique_counterparties", Zero)
        total_transactions == Get(metrics, "total_transactions", One)
        diversity_ratio == RDiv(unique_counterparties, total_transactions)
    IN  IF IsRaise(diversity_ratio) THEN diversity_ratio
        ELSE Ok(DiversityNoRatio(metrics))

calculate_recent_activity_score(metrics) ==
    LET time_span_days == Get(metrics, "time_span_days", Zero) IN
    IF LE(time_span_days, Rat(30, 1)) THEN 10
    ELSE IF LE(time_span_days, Rat(90, 1)) THEN 30
    ELSE IF LE(time_span_days, Rat(180, 1)) THEN 50
    ELSE IF LE(time_span_days, Rat(365, 1)) THEN 70
    ELSE 100

RECURSIVE SumOver(_, _)
SumOver(f, S) == IF S = {} THEN 0
                 ELSE LET k == CHOOSE x \in S : TRUE
                      IN  f[k] + SumOver(f, S \ {k})

\* sum(scores[factor] * self.weights[factor] for factor in scores): the exact sum
\* in 1/10000, and whether the float sum is below it (never below a sum of 0),
\* kept where 1000 times the exact sum is a whole number
WeightedScore(scores, rounded_below) ==
    LET exact == SumOver([f \in Factors |-> scores[f] * weights[f]], Factors)
    IN  [exact |-> exact, below |-> rounded_below /\ exact > 0 /\ exact % 10 = 0]

\* variant: round(weighted_score * 1000) in place of int(..)
RiskScoreRounded(weighted_score) == (weighted_score.exact + 5) \div 10

\* int(weighted_score * 1000)
RiskScoreOf(weighted_score) ==
    IF weighted_score.below /\ weighted_score.exact % 10 = 0
    THEN weighted_score.exact \div 10 - 1
    ELSE weighted_score.exact \div 10

\* variant: the band bounds are exclusive
RiskCategoryExclusive(risk_score) ==
    IF risk_score < 200 THEN "Very Low Risk"
    ELSE IF risk_score < 400 THEN "Low Risk"
    ELSE IF risk_score < 600 THEN "Medium Risk"
    ELSE IF risk_score < 800 THEN "High Risk"
    ELSE "Very High Risk"

RiskCategory(risk_score) ==
    IF risk_score <= 200 THEN "Very Low Risk"
    ELSE IF risk_score <= 400 THEN "Low Risk"
    ELSE IF risk_score <= 600 THEN "Medium Risk"
    ELSE IF risk_score <= 800 THEN "High Risk"
    ELSE "Very High Risk"

\* rounded_below: whether the float sum of the weighted scores falls below the exact sum
calculate_risk_score(wallet_address, transaction_metrics, cdata, bdata, rounded_below) ==
    LET diversity == calculate_counterparty_diversity_score(transaction_metrics) IN
    IF IsRaise(diversity) THEN diversity
    ELSE
    LET scores == [transaction_volume |-> calculate_transaction_volume_score(transaction_metrics),
                   transaction_frequency |-> calculate_frequency_score(transaction_metrics),
                   protocol_experience |-> calculate_protocol_experience_score(cdata),
                   balance_stability |-> calculate_balance_stability_score(bdata, transaction_metrics),
                   failure_rate |-> calculate_failure_rate_score(transaction_metrics),
                   counterparty_diversity |-> diversity.value,
                   recent_activity |-> calculate_recent_activity_score(transaction_metrics)]
        weighted_score == WeightedScore(scores, rounded_below)
        risk_score == RiskScoreOf(weighted_score)
    IN  [wallet_address |-> wallet_address,
         risk_score |-> risk_score,
         risk_category |-> RiskCategory(risk_score),
         component_scores |-> scores,
         weighted_score |-> weighted_score,
         transaction_metrics |-> transaction_metrics,
         compound_data |-> cdata,
         balance_data |-> bdata]

-----------------------------------------------------------------------------
(* compound_data_fetcher.py: CompoundDataFetcher *)

\* self.compound_v2_contracts and self.compound_v3_contracts, the values
CompoundAddresses ==
    {"0x5d3a536e4d6dbd6114cc1ead35777bab948e3643",
     "0x39aa39c021dfbae8fac545936693ac917d5e7563",
     "0xf650c3d88d12db855b8bf7d11be6c55a4e07dcc9",
     "0x4ddc2d193948926d02f9b1fe9e1daa0718270ed5",
     "0xc11b1268c1a384e55c48c2391d8d480264a3a7f4",
     "0x3d9819210a31b4961b30ef54be2aed79b9c9cd3b",
     "0xc3d688b66703497daa19211eedff47f25384cdc3",
     "0xa17581a9e3356d9a858b789d68b4d866e593ae94"}

\* 24 * 3600
SecondsPerDay == 86400
\* 10**18 wei, in the model's unit of 10^15 wei
UnitsPerEth == 1000

\* A provider string that holds a number is [digits |-> n]; any other is [text |-> s].
Digits(n) == [digits |-> n]
float(s) == IF "digits" \in DOMAIN s THEN Ok(s.digits)
            ELSE Raise("could not convert string to float: '" \o s.text \o "'")
int(s) == IF "digits" \in DOMAIN s THEN Ok(s.digits)
          ELSE Raise("invalid literal for int() with base 10: '" \o s.text \o "'")

\* `response` is what requests.get(..).json() gives: a decoded body, or a raised exception
get_wallet_transactions(wallet_address, response) ==
    IF IsRaise(response) THEN [success |-> FALSE, error |-> response.exception]
    ELSE IF response.status = "1"
         THEN [success |-> TRUE, transactions |-> response.result]
         ELSE [success |-> FALSE, error |-> Get(response, "message", "Unknown error")]

\* the first index whose tx makes the loop body raise KeyError, 0 if none
CompoundKeyError(transactions) ==
    LET bad == {k \in 1..Len(transactions) :
                  \/ "to" \notin DOMAIN transactions[k]
                  \/ /\ transactions[k].to \notin CompoundAddresses
                     /\ "from" \notin DOMAIN transactions[k]}
    IN  IF bad = {} THEN 0 ELSE CHOOSE k \in bad : \A j \in bad : k <= j

\* addresses of the model are lower case, so .lower() leaves them as they are;
\* `addr in tx['to']` is equality for strings of an address's length
get_compound_interactions(wallet_address, response) ==
    LET data == get_wallet_transactions(wallet_address, response) IN
    IF ~data.success THEN data
    ELSE
    LET txs == data.transactions
        k == CompoundKeyError(txs)
        IsCompound(tx) == /\ \/ tx.to \in CompoundAddresses
                             \/ tx.from = wallet_address
                          /\ tx.to \in CompoundAddresses
        compound_txs == SelectSeq(txs, IsCompound)
    IN  IF k # 0
        THEN Raise(IF "to" \notin DOMAIN txs[k] THEN "'to'" ELSE "'from'")
        ELSE [success |-> TRUE,
              compound_transactions |-> compound_txs,
              total_transactions |-> Rat(Len(txs), 1),
              compound_count |-> Rat(Len(compound_txs), 1)]

\* `response` is [web3 |-> balance in units] when the node answers, otherwise
\* [etherscan |-> r] with r what the fallback request gives
get_wallet_balance_history(wallet_address, response) ==
    IF "web3" \in DOMAIN response
    THEN [success |-> TRUE,
          current_balance_eth |-> Rat(response.web3, UnitsPerEth),
          current_balance_wei |-> response.web3]
    ELSE LET r == response.etherscan IN
         IF IsRaise(r) THEN [success |-> FALSE, error |-> r.exception]
         ELSE IF r.status = "1"
              THEN LET balance_wei == int(r.result) IN
                   IF IsRaise(balance_wei)
                   THEN [success |-> FALSE, error |-> balance_wei.exception]
                   ELSE [success |-> TRUE,
                         current_balance_eth |-> Rat(balance_wei.value, UnitsPerEth),
                         current_balance_wei |-> balance_wei.value]
              ELSE [success |-> FALSE, error |-> Get(r, "message", "Unknown error")]

RECURSIVE SumValues(_)
\* sum(float(tx.get('value', 0)) for tx in transactions), or the first exception
SumValues(transactions) ==
    IF transactions = <<>> THEN Ok(0)
    ELSE LET v == float(Get(Head(transactions), "value", Digits(0)))
             rest == SumValues(Tail(transactions))
         IN  IF IsRaise(v) THEN v
             ELSE IF IsRaise(rest) THEN rest
             ELSE Ok(v.value + rest.value)

SetMax(S) == CHOOSE x \in S : \A y \in S : y <= x
SetMin(S) == CHOOSE x \in S : \A y \in S : x <= y

analyze_transaction_patterns(transactions) ==
    IF transactions = <<>>
    THEN [total_transactions |-> Zero,
          avg_transaction_value |-> Zero,
          transaction_frequency |-> Zero,
          failed_transactions |-> Zero,
          unique_counterparties |-> Zero,
          time_span_days |-> Zero]
    ELSE
    LET total_txs == Len(transactions)
        total_value == SumValues(transactions)
        failed_txs == Cardinality({k \in 1..total_txs :
                                     Get(transactions[k], "isError", "") = "1"})
        counterparties == {Get(transactions[k], "to", "") : k \in 1..total_txs}
                          \cup {Get(transactions[k], "from", "") : k \in 1..total_txs}
        stamped == {k \in 1..total_txs : "timeStamp" \in DOMAIN transactions[k]}
        unparsed == {k \in stamped : IsRaise(int(transactions[k].timeStamp))}
        timestamps == {int(transactions[k].timeStamp).value : k \in stamped}
        time_span == IF stamped # {}
                     THEN Rat(SetMax(timestamps) - SetMin(timestamps), SecondsPerDay)
                     ELSE Zero
        frequency == IF stamped # {}
                     THEN RDiv(Rat(total_txs, 1), RMax(time_span, One)).value
                     ELSE Zero
    IN  IF IsRaise(total_value) THEN total_value
        ELSE IF unparsed # {}
        THEN int(transactions[SetMin(unparsed)].timeStamp)
        ELSE [total_transactions |-> Rat(total_txs, 1),
              avg_transaction_value |-> Rat(total_value.value, total_txs),
              transaction_frequency |-> frequency,
              failed_transactions |-> Rat(failed_txs, 1),
              failed_transaction_rate |-> Rat(failed_txs, total_txs),
              unique_counterparties |-> Rat(Cardinality(counterparties), 1),
              time_span_days |-> time_span,
              total_value_eth |-> Rat(total_value.value, UnitsPerEth)]

-----------------------------------------------------------------------------
(* The chain the provider reads: fixed during a run *)

cDAI == "0x5d3a536e4d6dbd6114cc1ead35777bab948e3643"

Addresses == {"0xa1", "0xb2", "0xc3", "0xd4"}

\* the 'result' list of the explorer's txlist answer for each address
Chain(a) ==
    CASE a = "0xa1" ->
           <<[to |-> cDAI, from |-> "0xa1", value |-> Digits(3000),
              isError |-> "0", timeStamp |-> Digits(0)],
             [to |-> "0xee", from |-> "0xa1", value |-> Digits(2000),
              isError |-> "1", timeStamp |-> Digits(10 * SecondsPerDay)]>>
      [] a = "0xe5" ->
           <<[to |-> cDAI, from |-> "0xe5", value |-> Digits(3000),
              isError |-> "0", timeStamp |-> Digits(0)],
             [to |-> "0xee", from |-> "0xe5", value |-> Digits(2000),
              isError |-> "1", timeStamp |-> Digits(10 * SecondsPerDay)]>>
      [] a = "0xb2" -> <<>>
      [] a = "0xc3" ->
           <<[to |-> "0xee", from |-> "0xc3", value |-> [text |-> "0x1f"],
              isError |-> "0", timeStamp |-> Digits(0)]>>
      [] OTHER ->
           <<[from |-> "0xd4", value |-> Digits(500),
              isError |-> "0", timeStamp |-> Digits(0)]>>

\* the balance of each address, in the model's unit
BalanceOf(a) == IF a = "0xa1" THEN 50 ELSE IF a = "0xb2" THEN 0
                ELSE IF a = "0xe5" THEN 15000 ELSE 2000

ProviderErrors == {"Max rate limit reached"}

\* what the txlist request can give for an address
TxFailures == {[status |-> "0", message |-> m] : m \in ProviderErrors}
              \cup {Raise("Connection aborted")}
TxResponses(a) == {[status |-> "1", result |-> Chain(a)]} \cup TxFailures

\* what the node and the fallback balance request can give for an address
BalanceFailures == {[etherscan |-> [status |-> "0", message |-> "NOTOK"]]}
BalanceResponses(a) ==
    {[web3 |-> BalanceOf(a)],
     [etherscan |-> [status |-> "1", result |-> Digits(BalanceOf(a))]]}
    \cup BalanceFailures

\* MemoryError(), raised while the normalizer builds its lists: str(e) is empty
OutOfMemory == Raise("")

\* OSError of DataFrame.to_csv, OverflowError of time.sleep
WriteError == "[Errno 28] No space left on device"
SleepError == "timestamp too large to convert to C _PyTime_t"

-----------------------------------------------------------------------------
(* main.py: WalletRiskAnalyzer *)

\* variant: the placeholder score is 0
CreateErrorResultZero(wallet_address, error_message) ==
    [wallet_address |-> wallet_address,
     risk_score |-> 0,
     risk_category |-> "Error - Unable to Assess",
     error |-> error_message,
     component_scores |-> EmptyDict,
     transaction_metrics |-> EmptyDict,
     compound_data |-> EmptyDict,
     balance_data |-> EmptyDict]

create_error_result(wallet_address, error_message) ==
    [wallet_address |-> wallet_address,
     risk_score |-> 999,
     risk_category |-> "Error - Unable to Assess",
     error |-> error_message,
     component_scores |-> EmptyDict,
     transaction_metrics |-> EmptyDict,
     compound_data |-> EmptyDict,
     balance_data |-> EmptyDict]

\* one row of _create_results_dataframe; processed_at, the clock, is left out
ResultRow(r) ==
    [wallet_id |-> r.wallet_address,
     risk_score |-> r.risk_score,
     risk_category |-> r.risk_category,
     total_transactions |-> Get(Get(r, "transaction_metrics", EmptyDict), "total_transactions", Zero),
     compound_interactions |-> Get(Get(r, "compound_data", EmptyDict), "compound_count", Zero),
     current_balance_eth |-> Get(Get(r, "balance_data", EmptyDict), "current_balance_eth", Zero),
     transaction_volume_eth |-> Get(Get(r, "transaction_metrics", EmptyDict), "total_value_eth", Zero),
     transaction_frequency |-> Get(Get(r, "transaction_metrics", EmptyDict), "transaction_frequency", Zero),
     failed_transaction_rate |-> Get(Get(r, "transaction_metrics", EmptyDict), "failed_transaction_rate", Zero),
     unique_counterparties |-> Get(Get(r, "transaction_metrics", EmptyDict), "unique_counterparties", Zero),
     error |-> Get(r, "error", "")]

create_results_dataframe(rs) == [k \in 1..Len(rs) |-> ResultRow(rs[k])]

RAdd(x, y) == IF x[2] = y[2] THEN Rat(x[1] + y[1], x[2])
              ELSE Rat(x[1] * y[2] + y[1] * x[2], x[2] * y[2])

RECURSIVE SumColumn(_, _)
SumColumn(df, column) ==
    IF df = <<>> THEN Zero
    ELSE RAdd(df[1][column], SumColumn(Tail(df), column))

\* Series.mean() of a column of rationals
MeanColumn(df, column) ==
    LET total == SumColumn(df, column) IN Rat(total[1], total[2] * Len(df))

\* the values of a column of integers in ascending order
RECURSIVE Sorted(_)
Sorted(values) ==
    IF values = <<>> THEN <<>>
    ELSE LET k == CHOOSE j \in 1..Len(values) :
                      \A h \in 1..Len(values) : values[j] <= values[h]
         IN  <<values[k]>> \o Sorted(SubSeq(values, 1, k - 1)
                                     \o SubSeq(values, k + 1, Len(values)))

\* Series.median(): the middle value, or the mean of the two middle values
Median(values) ==
    LET sorted == Sorted(values)
        n == Len(values)
    IN  IF n % 2 = 1 THEN Rat(sorted[(n + 1) \div 2], 1)
        ELSE Rat(sorted[n \div 2] + sorted[n \div 2 + 1], 2)

\* what _print_summary_statistics prints for the table df, before formatting; a
\* table without rows has no columns, and df['error'] raises KeyError
print_summary_statistics(df) ==
    IF df = <<>> THEN Raise("'error'")
    ELSE
    LET successful_df == SelectSeq(df, LAMBDA row : row.error = "")
        failed_df == SelectSeq(df, LAMBDA row : row.error # "")
        scores == [k \in 1..Len(successful_df) |-> successful_df[k].risk_score]
        categories == {successful_df[k].risk_category : k \in 1..Len(successful_df)}
        count(category) ==
            Cardinality({k \in 1..Len(successful_df) :
                           successful_df[k].risk_category = category})
        counts == [processed |-> Len(df),
                   successful |-> Len(successful_df),
                   failed |-> Len(failed_df)]
    IN  IF Len(successful_df) > 0
        THEN Ok(counts @@
                [mean |-> Rat(SumOver(scores, DOMAIN scores), Len(scores)),
                 median |-> Median(scores),
                 min |-> Sorted(scores)[1],
                 max |-> Sorted(scores)[Len(scores)],
                 risk_dist |-> [c \in categories |->
                                  [count |-> count(c),
                                   percentage |-> Rat(count(c) * 100, Len(successful_df))]],
                 avg_transactions |-> MeanColumn(successful_df, "total_transactions"),
                 avg_compound |-> MeanColumn(successful_df, "compound_interactions"),
                 avg_balance |-> MeanColumn(successful_df, "current_balance_eth")])
        ELSE Ok(counts)

NoFile == [exists |-> FALSE]
File(rows) == [exists |-> TRUE, rows |-> rows]

\* if i % 10 == 0
CheckpointEvery == 10

wallet_address == wallet_addresses[i]
Fault == faults < MaxFaults /\ faults' = faults + 1
NoFault == faults' = faults

\* positions inside process_wallet_list
Running == {"loop", "fetch_tx", "analyze", "fetch_compound", "fetch_balance",
            "score", "return", "checkpoint", "delay", "final", "summary"}

\* for i, wallet_address in enumerate(wallet_addresses, 1): the next wallet
LoopNext ==
    /\ pc = "loop"
    /\ i < Len(wallet_addresses)
    /\ i' = i + 1
    /\ pc' = "fetch_tx"
    /\ tx_data' = None /\ tx_metrics' = None /\ compound_data' = None
    /\ balance_data' = None /\ result' = None
    /\ UNCHANGED <<summary, wallet_addresses, delay_seconds, results, temp_file, output_file, faults>>

\* the list is exhausted
LoopEnd ==
    /\ pc = "loop"
    /\ i = Len(wallet_addresses)
    /\ pc' = "final"
    /\ UNCHANGED <<summary, wallet_addresses, delay_seconds, i, results, temp_file, output_file,
                   tx_data, tx_metrics, compound_data, balance_data, result, faults>>

\* variant: the provider's message is dropped from the error text
TxFetchedNoMessage(response) ==
    LET data == get_wallet_transactions(wallet_addresses[i], response) IN
    /\ tx_data' = data
    /\ IF ~data.success
       THEN /\ result' = [wallet_address |-> wallet_addresses[i],
                          risk_score |-> 999,
                          risk_category |-> "Error - Unable to Assess",
                          error |-> "Transaction fetch error",
                          component_scores |-> EmptyDict,
                          transaction_metrics |-> EmptyDict,
                          compound_data |-> EmptyDict,
                          balance_data |-> EmptyDict]
            /\ pc' = "return"
       ELSE /\ result' = result
            /\ pc' = "analyze"

\* process_wallet: tx_data = get_wallet_transactions(..) and the check of its success
TxFetched(response) ==
    LET data == get_wallet_transactions(wallet_address, response) IN
    /\ tx_data' = data
    /\ IF ~data.success
       THEN /\ result' = create_error_result(wallet_address,
                             "Transaction fetch error: " \o data.error)
            /\ pc' = "return"
       ELSE /\ result' = result
            /\ pc' = "analyze"

FetchTransactions ==
    /\ pc = "fetch_tx"
    /\ \/ /\ TxFetched([status |-> "1", result |-> Chain(wallet_address)])
          /\ NoFault
       \/ /\ \E response \in TxFailures : TxFetched(response)
          /\ Fault
    /\ UNCHANGED <<summary, wallet_addresses, delay_seconds, i, results, temp_file, output_file,
                   tx_metrics, compound_data, balance_data>>

\* process_wallet: tx_metrics = analyze_transaction_patterns(..), or the except
\* clause: for the exception of the normalizer, or for a MemoryError
AnalyzePatterns ==
    /\ pc = "analyze"
    /\ \/ /\ NoFault
          /\ LET m == analyze_transaction_patterns(tx_data.transactions) IN
             IF IsRaise(m)
             THEN /\ result' = create_error_result(wallet_address, m.exception)
                  /\ pc' = "return"
                  /\ tx_metrics' = tx_metrics
             ELSE /\ tx_metrics' = m
                  /\ pc' = "fetch_compound"
                  /\ result' = result
       \/ /\ Fault
          /\ result' = create_error_result(wallet_address, OutOfMemory.exception)
          /\ pc' = "return"
          /\ tx_metrics' = tx_metrics
    /\ UNCHANGED <<summary, wallet_addresses, delay_seconds, i, results, temp_file, output_file,
                   tx_data, compound_data, balance_data>>

\* variant: the balance is not fetched
CompoundFetchedSkipBalance(response) ==
    LET c == get_compound_interactions(wallet_addresses[i], response) IN
    IF IsRaise(c)
    THEN /\ result' = create_error_result(wallet_addresses[i], c.exception)
         /\ pc' = "return"
         /\ compound_data' = compound_data
    ELSE /\ compound_data' =
              IF ~c.success
              THEN [success |-> TRUE, compound_count |-> Zero,
                    compound_transactions |-> <<>>]
              ELSE c
         /\ pc' = "score"
         /\ result' = result

\* process_wallet: compound_data = get_compound_interactions(..) and its default
CompoundFetched(response) ==
    LET c == get_compound_interactions(wallet_address, response) IN
    IF IsRaise(c)
    THEN /\ result' = create_error_result(wallet_address, c.exception)
         /\ pc' = "return"
         /\ compound_data' = compound_data
    ELSE /\ compound_data' =
              IF ~c.success
              THEN [success |-> TRUE, compound_count |-> Zero,
                    compound_transactions |-> <<>>]
              ELSE c
         /\ pc' = "fetch_balance"
         /\ result' = result

FetchCompound ==
    /\ pc = "fetch_compound"
    /\ \/ /\ CompoundFetched([status |-> "1", result |-> Chain(wallet_address)])
          /\ NoFault
       \/ /\ \E response \in TxFailures : CompoundFetched(response)
          /\ Fault
    /\ UNCHANGED <<summary, wallet_addresses, delay_seconds, i, results, temp_file, output_file,
                   tx_data, tx_metrics, balance_data>>

\* process_wallet: balance_data = get_wallet_balance_history(..) and its default
BalanceFetched(response) ==
    LET b == get_wallet_balance_history(wallet_address, response) IN
    /\ balance_data' = IF ~b.success
                       THEN [success |-> TRUE, current_balance_eth |-> Zero]
                       ELSE b
    /\ pc' = "score"

FetchBalance ==
    /\ pc = "fetch_balance"
    /\ \/ /\ \E response \in BalanceResponses(wallet_address) \ BalanceFailures :
                BalanceFetched(response)
          /\ NoFault
       \/ /\ \E response \in BalanceFailures : BalanceFetched(response)
          /\ Fault
    /\ UNCHANGED <<summary, wallet_addresses, delay_seconds, i, results, temp_file, output_file,
                   tx_data, tx_metrics, compound_data, result>>

\* variant: process_wallet has no except clause, so the exception of the
\* engine reaches the handler of the batch loop
ScoreUncaught ==
    /\ pc = "score"
    /\ \E rounded_below \in BOOLEAN :
         LET r == calculate_risk_score(wallet_addresses[i], tx_metrics, compound_data,
                                       balance_data, rounded_below)
         IN  IF IsRaise(r)
             THEN /\ results' = Append(results,
                                       [wallet_address |-> wallet_addresses[i],
                                        risk_score |-> 999,
                                        risk_category |-> "Error - Unable to Assess",
                                        error |-> "Critical error: " \o r.exception,
                                        component_scores |-> EmptyDict,
                                        transaction_metrics |-> EmptyDict,
                                        compound_data |-> EmptyDict,
                                        balance_data |-> EmptyDict])
                  /\ pc' = "loop"
                  /\ result' = result
             ELSE /\ result' = r
                  /\ pc' = "return"
                  /\ results' = results
    /\ UNCHANGED <<summary, wallet_addresses, delay_seconds, i, temp_file, output_file,
                   tx_data, tx_metrics, compound_data, balance_data, faults>>

\* process_wallet: risk_result = calculate_risk_score(..), or the except clause
Score ==
    /\ pc = "score"
    /\ \E rounded_below \in BOOLEAN :
         LET r == calculate_risk_score(wallet_address, tx_metrics, compound_data,
                                       balance_data, rounded_below)
         IN  result' = IF IsRaise(r)
                       THEN create_error_result(wallet_address, r.exception)
                       ELSE r
    /\ pc' = "return"
    /\ UNCHANGED <<summary, wallet_addresses, delay_seconds, i, results, temp_file, output_file,
                   tx_data, tx_metrics, compound_data, balance_data, faults>>

\* variant: no checkpoint is written
AppendResultNoCheckpoint ==
    /\ pc = "return"
    /\ results' = Append(results, result)
    /\ pc' = "delay"
    /\ UNCHANGED <<summary, wallet_addresses, delay_seconds, i, temp_file, output_file,
                   tx_data, tx_metrics, compound_data, balance_data, result, faults>>

\* process_wallet_list: results.append(result)
AppendResult ==
    /\ pc = "return"
    /\ results' = Append(results, result)
    /\ pc' = IF i % CheckpointEvery = 0 THEN "checkpoint" ELSE "delay"
    /\ UNCHANGED <<summary, wallet_addresses, delay_seconds, i, temp_file, output_file,
                   tx_data, tx_metrics, compound_data, balance_data, result, faults>>

\* process_wallet_list: except Exception as e, around the whole loop body
CriticalError(msg) ==
    /\ results' = Append(results,
                         create_error_result(wallet_address, "Critical error: " \o msg))
    /\ pc' = "loop"

\* process_wallet_list: self._save_intermediate_results(results, ..)
SaveIntermediate ==
    /\ pc = "checkpoint"
    /\ \/ /\ temp_file' = File(create_results_dataframe(results))
          /\ pc' = "delay"
          /\ results' = results
          /\ NoFault
       \/ /\ CriticalError(WriteError)
          /\ temp_file' = temp_file
          /\ Fault
    /\ UNCHANGED <<summary, wallet_addresses, delay_seconds, i, output_file,
                   tx_data, tx_metrics, compound_data, balance_data, result>>

\* process_wallet_list: if delay_seconds > 0: time.sleep(delay_seconds)
Delay ==
    /\ pc = "delay"
    /\ \/ /\ pc' = "loop"
          /\ results' = results
          /\ NoFault
       \/ /\ delay_seconds > 0
          /\ CriticalError(SleepError)
          /\ Fault
    /\ UNCHANGED <<summary, wallet_addresses, delay_seconds, i, temp_file, output_file,
                   tx_data, tx_metrics, compound_data, balance_data, result>>

\* process_wallet_list: df_results.to_csv(output_file); an error of it reaches main
WriteFinal ==
    /\ pc = "final"
    /\ \/ /\ output_file' = File(create_results_dataframe(results))
          /\ pc' = "summary"
          /\ NoFault
       \/ /\ output_file' = output_file
          /\ pc' = "crashed"
          /\ Fault
    /\ UNCHANGED <<summary, wallet_addresses, delay_seconds, i, results, temp_file,
                   tx_data, tx_metrics, compound_data, balance_data, result>>

\* process_wallet_list: self._print_summary_statistics(df_results); its
\* KeyError reaches main
PrintSummary ==
    /\ pc = "summary"
    /\ LET printed == print_summary_statistics(output_file.rows) IN
       IF IsRaise(printed)
       THEN pc' = "crashed" /\ summary' = summary
       ELSE pc' = "done" /\ summary' = printed.value
    /\ UNCHANGED <<wallet_addresses, delay_seconds, i, results, temp_file, output_file,
                   tx_data, tx_metrics, compound_data, balance_data, result, faults>>

\* variant: the interrupt is handled by writing the accumulated records
KeyboardInterruptFlush ==
    /\ pc \in Running
    /\ pc' = "interrupted"
    /\ temp_file' = File([k \in 1..Len(results) |-> ResultRow(results[k])])
    /\ UNCHANGED <<summary, wallet_addresses, delay_seconds, i, results, output_file,
                   tx_data, tx_metrics, compound_data, balance_data, result, faults>>

\* KeyboardInterrupt is no Exception: neither except clause of the run catches
\* it, and it reaches main from wherever the thread is
KeyboardInterrupt ==
    /\ pc \in Running
    /\ pc' = "interrupted"
    /\ UNCHANGED <<summary, wallet_addresses, delay_seconds, i, results, temp_file, output_file,
                   tx_data, tx_metrics, compound_data, balance_data, result, faults>>

\* the wallet lists of the model: every short list, and two long lists
LongList == [k \in 1..MaxWallets |->
               CASE k % 4 = 1 -> "0xb2" [] k % 4 = 2 -> "0xc3"
                 [] k % 4 = 3 -> "0xd4" [] OTHER -> "0xa1"]
\* a long list of wallets whose data the normalizer and the engine accept
GoodList == [k \in 1..MaxWallets |-> "0xe5"]
WalletFiles == UNION {[1..n -> Addresses] : n \in 0..ShortLen} \cup {LongList, GoodList}

\* delay_seconds, in tenths of a second
Delays == {0, 5}

Init ==
    /\ wallet_addresses \in WalletFiles
    /\ delay_seconds \in Delays
    /\ i = 0
    /\ pc = "loop"
    /\ results = <<>>
    /\ temp_file = NoFile
    /\ output_file = NoFile
    /\ tx_data = None /\ tx_metrics = None /\ compound_data = None
    /\ balance_data = None /\ result = None
    /\ summary = None
    /\ faults = 0

Next ==
    \/ LoopNext
    \/ LoopEnd
    \/ FetchTransactions
    \/ AnalyzePatterns
    \/ FetchCompound
    \/ FetchBalance
    \/ Score
    \/ AppendResult
    \/ SaveIntermediate
    \/ Delay
    \/ WriteFinal
    \/ PrintSummary
    \/ KeyboardInterrupt

Spec == Init /\ [][Next]_vars

-----------------------------------------------------------------------------
(* The scoring engine alone: calculate_risk_score applied to input records *)

\* the dicts that hold key k with a value of Vals, or do not hold it
Opt(k, Vals) == {EmptyDict} \cup {k :> v : v \in Vals}

VolumeInputs == {Zero, Rat(5, 1), Rat(1000, 1)}
FrequencyInputs == {Rat(1, 20), Rat(1, 1)}
FailureRateInputs == {Rat(2, 100), Rat(1, 2)}
CounterpartyInputs == {Zero, Rat(3, 1), Rat(100, 1)}
TransactionCountInputs == {Zero, Rat(20, 1)}
TimeSpanInputs == {Rat(10, 1), Rat(400, 1)}
CompoundCountInputs == {Rat(5, 1), Rat(50, 1)}
BalanceInputs == {Rat(1, 20), Rat(100, 1)}

MetricsInputs ==
    {v @@ f @@ r @@ u @@ t @@ d :
        v \in Opt("total_value_eth", VolumeInputs),
        f \in Opt("transaction_frequency", FrequencyInputs),
        r \in Opt("failed_transaction_rate", FailureRateInputs),
        u \in Opt("unique_counterparties", CounterpartyInputs),
        t \in Opt("total_transactions", TransactionCountInputs),
        d \in Opt("time_span_days", TimeSpanInputs)}

InitScore ==
    /\ wallet_addresses = <<"0xa1">>
    /\ delay_seconds = 0
    /\ i = 1
    /\ pc = "score_call"
    /\ results = <<>>
    /\ temp_file = NoFile
    /\ output_file = NoFile
    /\ tx_data = None
    /\ tx_metrics \in MetricsInputs
    /\ compound_data \in Opt("compound_count", CompoundCountInputs)
    /\ balance_data \in Opt("current_balance_eth", BalanceInputs)
    /\ result = None
    /\ summary = None
    /\ faults = 0

\* a call of calculate_risk_score and its outcome: the record returned, or the exception
ScoreCall ==
    /\ pc = "score_call"
    /\ \E rounded_below \in BOOLEAN :
         result' = calculate_risk_score(wallet_address, tx_metrics, compound_data,
                                        balance_data, rounded_below)
    /\ pc' = "score_done"
    /\ UNCHANGED <<summary, wallet_addresses, delay_seconds, i, results, temp_file, output_file,
                   tx_data, tx_metrics, compound_data, balance_data, faults>>

NextScore == ScoreCall

SpecScore == InitScore /\ [][NextScore]_vars

Scored == pc = "score_done" /\ ~IsRaise(result)

-----------------------------------------------------------------------------
(* Claims about the scoring engine *)

\* C5: calculate_risk_score returns a RiskAssessment without raising for every
\* well-formed input: non-negative metric values, total_transactions = 0 and
\* unique_counterparties = 0 included, and any subset of the keys missing.
C5_NeverRaises == pc = "score_done" => ~IsRaise(result)

\* C8: every one of the seven factor scores of a returned assessment lies in
\* [0,1] (0..100 hundredths), weighted_score lies in [0,1] (0..10000), and
\* risk_score is floor(1000 * sum of score * weight), the sum being the float
\* sum the engine returns as weighted_score, and lies in [0,1000].
C8_ScoresInRange ==
    Scored =>
        LET cs == result.component_scores
            total == cs.transaction_volume * 20 + cs.transaction_frequency * 15
                     + cs.protocol_experience * 25 + cs.balance_stability * 15
                     + cs.failure_rate * 10 + cs.counterparty_diversity * 10
                     + cs.recent_activity * 5
            w == result.weighted_score
        IN  /\ DOMAIN cs = Factors
            /\ \A f \in Factors : cs[f] \in 0..100
            /\ w.exact = total
            /\ w.exact \in 0..10000
            /\ w.below => w.exact > 0
            /\ IF w.below
               THEN result.risk_score * 10 < w.exact
                    /\ w.exact <= (result.risk_score + 1) * 10
               ELSE result.risk_score * 10 <= w.exact
                    /\ w.exact < (result.risk_score + 1) * 10
            /\ result.risk_score \in 0..1000

\* C8 witness: an assessment whose balance score was clamped at the upper end
C8_Witness ==
    /\ Scored
    /\ BalanceStabilityUnclamped(balance_data, tx_metrics) > 100
    /\ result.component_scores.balance_stability = 100

CategoryRank(c) ==
    CASE c = "Very Low Risk" -> 1 [] c = "Low Risk" -> 2 [] c = "Medium Risk" -> 3
      [] c = "High Risk" -> 4 [] c = "Very High Risk" -> 5 [] OTHER -> 0

\* C9: risk_category is decided by risk_score alone, with inclusive upper
\* bounds: <= 200 Very Low, 201..400 Low, 401..600 Medium, 601..800 High,
\* > 800 Very High; a higher score never gets a lower-risk category.
C9_CategoryByScore ==
    /\ Scored =>
         /\ result.risk_score \in 0..200 => result.risk_category = "Very Low Risk"
         /\ result.risk_score \in 201..400 => result.risk_category = "Low Risk"
         /\ result.risk_score \in 401..600 => result.risk_category = "Medium Risk"
         /\ result.risk_score \in 601..800 => result.risk_category = "High Risk"
         /\ result.risk_score > 800 => result.risk_category = "Very High Risk"
    /\ \A s \in {200, 400, 600, 800} :
         CategoryRank(RiskCategory(s)) = s \div 200
         /\ CategoryRank(RiskCategory(s + 1)) = s \div 200 + 1
    /\ \A s \in 0..1000 :
         /\ CategoryRank(RiskCategory(s)) >= 1
         /\ CategoryRank(RiskCategory(s)) <= CategoryRank(RiskCategory(s + 1))

\* C9 witness: an assessment in the highest band
C9_Witness ==
    /\ Scored
    /\ result.risk_score > 800
    /\ result.risk_category = "Very High Risk"

-----------------------------------------------------------------------------
(* The batch run and the engine together *)

SpecAll == (Init \/ InitScore) /\ [][Next \/ NextScore]_vars

-----------------------------------------------------------------------------
(* Claims about the batch pipeline *)

IsFailed(r) == "error" \in DOMAIN r
TxFetchFailed == "success" \in DOMAIN tx_data /\ ~tx_data.success
CompoundDefaulted == compound_data # None /\ "total_transactions" \notin DOMAIN compound_data
BalanceDefaulted == balance_data # None /\ "current_balance_wei" \notin DOMAIN balance_data

\* C1: whatever fails (provider, scoring, checkpoint write, delay), the run
\* accumulates exactly one record per input address, in input order, and
\* the final table has exactly one row per input address.
C1_OneRecordPerAddress ==
    /\ pc = "loop" =>
         /\ Len(results) = i
         /\ \A k \in 1..i : results[k].wallet_address = wallet_addresses[k]
    /\ pc = "done" =>
         /\ Len(output_file.rows) = Len(wallet_addresses)
         /\ \A k \in 1..Len(wallet_addresses) :
              output_file.rows[k].wallet_id = wallet_addresses[k]

\* C2: when the transaction-list fetch reports failure, process_wallet
\* returns the Failed record: score 999, the error category, empty
\* component/metric/usage/balance fields, and an error text that carries
\* the provider's message.
C2_TxFailureGivesFailed ==
    (pc = "return" /\ TxFetchFailed) =>
        /\ tx_data.error \in ProviderErrors \cup {"Connection aborted"}
        /\ result = [wallet_address |-> wallet_addresses[i],
                     risk_score |-> 999,
                     risk_category |-> "Error - Unable to Assess",
                     error |-> "Transaction fetch error: " \o tx_data.error,
                     component_scores |-> EmptyDict,
                     transaction_metrics |-> EmptyDict,
                     compound_data |-> EmptyDict,
                     balance_data |-> EmptyDict]

\* C2 witness: process_wallet is returning after a rate-limited txlist request
C2_Witness ==
    /\ pc = "return"
    /\ TxFetchFailed
    /\ tx_data.error = "Max rate limit reached"
    /\ IsFailed(result)
    /\ i = 2

\* C3: once the transaction list was fetched, a failed protocol-usage or
\* balance fetch never gives a Failed record: the defaults compound_count = 0
\* and current_balance_eth = 0 are scored and the wallet ends Completed.
C3_DefaultsNeverFail ==
    (pc = "return" /\ (CompoundDefaulted \/ BalanceDefaulted) /\ balance_data # None) =>
        /\ ~IsFailed(result)
        /\ CompoundDefaulted => result.compound_data.compound_count = Zero
        /\ BalanceDefaulted => result.balance_data.current_balance_eth = Zero

\* the exception a step of process_wallet is about to raise, None if it raises none
PendingException ==
    IF pc = "analyze" /\ IsRaise(analyze_transaction_patterns(tx_data.transactions))
    THEN analyze_transaction_patterns(tx_data.transactions)
    ELSE IF pc = "score"
            /\ IsRaise(calculate_risk_score(wallet_address, tx_metrics,
                                            compound_data, balance_data, FALSE))
    THEN calculate_risk_score(wallet_address, tx_metrics, compound_data, balance_data, FALSE)
    ELSE None

\* C4: an exception raised while normalizing or scoring (or by a provider
\* call) is caught inside process_wallet and becomes that wallet's Failed
\* record, with the text of the exception raised; it never reaches the batch
\* loop's handler nor ends the run, and the wallets after it are processed.
C4_ExceptionsCaught ==
    /\ [][/\ (PendingException # None /\ pc' # "interrupted") =>
               /\ pc' = "return"
               /\ result' = [wallet_address |-> wallet_addresses[i],
                             risk_score |-> 999,
                             risk_category |-> "Error - Unable to Assess",
                             error |-> IF faults' = faults
                                       THEN PendingException.exception
                                       ELSE OutOfMemory.exception,
                             component_scores |-> EmptyDict,
                             transaction_metrics |-> EmptyDict,
                             compound_data |-> EmptyDict,
                             balance_data |-> EmptyDict]
               /\ results' = results
          /\ (pc = "fetch_compound" /\ pc' = "return") =>
               /\ IsFailed(result')
               /\ result'.error \in {"'to'", "'from'"}
               /\ results' = results
          /\ (pc = "return" /\ pc' # "interrupted") =>
               /\ results' = Append(results, result)
               /\ pc' \in {"checkpoint", "delay"}]_vars
    /\ [](pc = "crashed" => i = Len(wallet_addresses))

\* C4 witness: the first wallet's normalizer raised, the second wallet is being fetched
C4_Witness ==
    /\ pc = "fetch_tx"
    /\ i = 2
    /\ Len(results) = 1
    /\ IsFailed(results[1])
    /\ results[1].error = "could not convert string to float: '0x1f'"

\* C6: a checkpoint is written each time the count of processed wallets
\* reaches a multiple of 10, the checkpoint written after wallet k holds
\* exactly the results of wallets 1..k in order, and so, between wallets, at
\* most 9 processed wallets are missing from the latest checkpoint.
C6_Checkpoints ==
    [][/\ (pc = "checkpoint" /\ pc' # "interrupted") =>
            temp_file' = File(create_results_dataframe(results))
       /\ temp_file' # temp_file =>
            /\ i % 10 = 0
            /\ Len(temp_file'.rows) = i
            /\ \A k \in 1..i : temp_file'.rows[k].wallet_id = wallet_addresses[k]
       /\ pc = "loop" =>
            i - (IF temp_file.exists THEN Len(temp_file.rows) ELSE 0) <= 9]_vars

\* C7 as claimed: when the run stops on an interrupt that arrived while
\* wallet i was being processed, wallet i's record has been appended.
C7_InterruptAtLoopBoundary ==
    (pc = "interrupted" /\ i >= 1) =>
        /\ Len(results) >= i
        /\ results[Len(results)].wallet_address = wallet_addresses[i]

\* C7 as amended: the interrupt ends the run at the step it arrives at: the
\* record list, the checkpoint and the final table stay as they were, the
\* final table is not written unless it was before the interrupt (which
\* then arrived while the summary was printed), and no further wallet is
\* started.
C7_InterruptImmediate ==
    /\ [][(pc' = "interrupted" \/ pc = "interrupted") =>
             /\ i' = i
             /\ results' = results
             /\ temp_file' = temp_file
             /\ output_file' = output_file
             /\ summary' = summary
             /\ pc # "summary" => output_file = NoFile]_vars
    /\ [](pc = "interrupted" => ~ENABLED Next)

\* C7 witness: the run was interrupted inside a wallet, before its record was appended
C7_Witness ==
    /\ pc = "interrupted"
    /\ i >= 1
    /\ tx_data # None
    /\ Len(results) < i

FiveCategories == {"Very Low Risk", "Low Risk", "Medium Risk", "High Risk",
                   "Very High Risk"}

NormalRecord(r) ==
    /\ ~IsFailed(r)
    /\ r.risk_score \in 0..1000
    /\ r.risk_score # 999
    /\ r.risk_score \in {r.weighted_score.exact \div 10, r.weighted_score.exact \div 10 - 1}
    /\ r.risk_category \in FiveCategories
    /\ DOMAIN r.component_scores = Factors

ErrorPlaceholder(r) ==
    /\ IsFailed(r)
    /\ r.risk_score = 999
    /\ r.risk_category = "Error - Unable to Assess"
    /\ r.component_scores = EmptyDict

\* C10: every accumulated record is either a normal result (no error field,
\* the engine's score, one of the five categories) or an error placeholder
\* (error field, 999, the error category), never both; no assessment the
\* engine returns has score 999; an appended record is never changed.
C10_RecordKinds ==
    /\ [](\A k \in 1..Len(results) :
             /\ NormalRecord(results[k]) \/ ErrorPlaceholder(results[k])
             /\ ~(NormalRecord(results[k]) /\ ErrorPlaceholder(results[k])))
    /\ [](Scored => NormalRecord(result))
    /\ [][/\ Len(results') >= Len(results)
          /\ \A k \in 1..Len(results) : results'[k] = results[k]]_vars

\* C10 witness: the list holds a normal record and an error placeholder
C10_Witness ==
    /\ Len(results) >= 2
    /\ NormalRecord(results[1])
    /\ ErrorPlaceholder(results[2])

-----------------------------------------------------------------------------
(* The engine called on the regression fixture and on inputs next to it *)

\* the values an input takes: the bounds of its scorer's buckets and a value
\* inside each bucket
VolumeProbes == {Zero, Rat(1, 2), One, Rat(5, 1), Rat(10, 1), Rat(100, 1),
                 Rat(1000, 1), Rat(2000, 1)}
FrequencyProbes == {Zero, Rat(1, 20), Rat(1, 10), Rat(1, 2), One}
CompoundCountProbes == {Zero, One, Rat(5, 1), Rat(10, 1), Rat(20, 1), Rat(50, 1),
                        Rat(60, 1)}
BalanceProbes == {Zero, Rat(1, 20), Rat(1, 10), Rat(1, 2), One, Rat(10, 1),
                  Rat(100, 1), Rat(200, 1)}
FailureRateProbes == {Zero, Rat(1, 100), Rat(2, 100), Rat(5, 100), Rat(1, 10),
                      Rat(1, 2)}
CounterpartyProbes == {Zero, Rat(3, 1), Rat(10, 1), Rat(20, 1), Rat(50, 1),
                       Rat(100, 1), Rat(150, 1)}
TransactionCountProbes == {Zero, Rat(20, 1)}
TimeSpanProbes == {Rat(10, 1), Rat(30, 1), Rat(90, 1), Rat(180, 1), Rat(365, 1),
                   Rat(400, 1)}

MetricProbes == [total_value_eth |-> VolumeProbes,
                 transaction_frequency |-> FrequencyProbes,
                 unique_counterparties |-> CounterpartyProbes,
                 total_transactions |-> TransactionCountProbes,
                 failed_transaction_rate |-> FailureRateProbes,
                 time_span_days |-> TimeSpanProbes]

\* the arguments of the regression call
FixtureMetrics == [total_value_eth |-> Rat(5, 1),
                   transaction_frequency |-> Rat(1, 20),
                   unique_counterparties |-> Rat(3, 1),
                   total_transactions |-> Rat(20, 1),
                   failed_transaction_rate |-> Zero,
                   time_span_days |-> Rat(10, 1)]
FixtureCompound == [compound_count |-> Zero]
FixtureBalance == [current_balance_eth |-> Rat(1, 20)]

\* the fixture, with any volume and balance or any compound_count and
\* unique_counterparties
InitProbe ==
    /\ wallet_addresses = <<"0xa1">>
    /\ delay_seconds = 0
    /\ i = 1
    /\ pc = "score_call"
    /\ results = <<>>
    /\ temp_file = NoFile
    /\ output_file = NoFile
    /\ tx_data = None
    /\ \E v \in VolumeProbes, b \in BalanceProbes,
          c \in CompoundCountProbes, u \in CounterpartyProbes :
         /\ \/ v = FixtureMetrics.total_value_eth /\ b = FixtureBalance.current_balance_eth
            \/ c = FixtureCompound.compound_count /\ u = FixtureMetrics.unique_counterparties
         /\ tx_metrics = [FixtureMetrics EXCEPT !.total_value_eth = v,
                                                !.unique_counterparties = u]
         /\ compound_data = [compound_count |-> c]
         /\ balance_data = [current_balance_eth |-> b]
    /\ result = None
    /\ summary = None
    /\ faults = 0

\* a second call of calculate_risk_score, on the arguments of the first with
\* one value replaced
ScoreAgain ==
    /\ pc = "score_done"
    /\ \/ \E k \in DOMAIN MetricProbes : \E v \in MetricProbes[k] :
            /\ v # tx_metrics[k]
            /\ tx_metrics' = [tx_metrics EXCEPT ![k] = v]
            /\ UNCHANGED <<compound_data, balance_data>>
       \/ \E v \in CompoundCountProbes :
            /\ v # compound_data.compound_count
            /\ compound_data' = [compound_count |-> v]
            /\ UNCHANGED <<tx_metrics, balance_data>>
       \/ \E v \in BalanceProbes :
            /\ v # balance_data.current_balance_eth
            /\ balance_data' = [current_balance_eth |-> v]
            /\ UNCHANGED <<tx_metrics, compound_data>>
    /\ \E rounded_below \in BOOLEAN :
         result' = calculate_risk_score(wallet_address, tx_metrics', compound_data',
                                        balance_data', rounded_below)
    /\ pc' = "score_again"
    /\ UNCHANGED <<summary, wallet_addresses, delay_seconds, i, results, temp_file, output_file,
                   tx_data, faults>>

NextProbe == ScoreCall \/ ScoreAgain

SpecProbe == InitProbe /\ [][NextProbe]_vars

\* the second call follows the first and both returned an assessment
BothScored == pc = "score_done" /\ pc' = "score_again" /\ ~IsRaise(result) /\ ~IsRaise(result')

-----------------------------------------------------------------------------
(* Claims about the factor scorers *)

\* C11: with every other input the same, a larger total_value_eth never gives
\* a larger transaction_volume score, a larger compound_count never a larger
\* protocol_experience score, and a larger unique_counterparties never a
\* larger counterparty_diversity score.
C11_Monotone ==
    [][BothScored =>
         /\ GT(tx_metrics'.total_value_eth, tx_metrics.total_value_eth) =>
              result'.component_scores.transaction_volume
                 <= result.component_scores.transaction_volume
         /\ GT(compound_data'.compound_count, compound_data.compound_count) =>
              result'.component_scores.protocol_experience
                 <= result.component_scores.protocol_experience
         /\ GT(tx_metrics'.unique_counterparties, tx_metrics.unique_counterparties) =>
              result'.component_scores.counterparty_diversity
                 <= result.component_scores.counterparty_diversity]_vars

\* C11 witness: the second call was made with another compound_count, 50,
\* and scored protocol_experience 0.05
C11_Witness ==
    /\ pc = "score_again"
    /\ ~IsRaise(result)
    /\ compound_data.compound_count = Rat(50, 1)
    /\ result.component_scores.protocol_experience = 5

\* the first call was made on the regression fixture and has returned
FixtureScored ==
    /\ pc = "score_done"
    /\ tx_metrics = FixtureMetrics
    /\ compound_data = FixtureCompound
    /\ balance_data = FixtureBalance

\* C14: on the regression fixture calculate_risk_score gives the component
\* scores volume 0.6, frequency 0.7, protocol 0.95, balance 0.9 (the ratio
\* is exactly 0.01, so nothing is added to the base 0.9), failure 0.0,
\* diversity 0.8, recency 0.1, weighted_score 0.6825, risk_score 682 and
\* category "High Risk".
C14_Fixture ==
    FixtureScored =>
        /\ ~IsRaise(result)
        /\ result.component_scores =
               [transaction_volume |-> 60, transaction_frequency |-> 70,
                protocol_experience |-> 95, balance_stability |-> 90,
                failure_rate |-> 0, counterparty_diversity |-> 80,
                recent_activity |-> 10]
        /\ EQ(RDiv(balance_data.current_balance_eth,
                   RMax(tx_metrics.total_value_eth, Rat(1, 1000))).value, Rat(1, 100))
        /\ BalanceStabilityUnclamped(balance_data, tx_metrics) = 90
        /\ result.weighted_score.exact = 6825
        /\ result.risk_score = 682
        /\ result.risk_category = "High Risk"

\* C14 witness: the call on the fixture has returned an assessment
C14_Witness ==
    /\ FixtureScored
    /\ ~IsRaise(result)
    /\ result.wallet_address = "0xa1"
    /\ result.transaction_metrics = FixtureMetrics

\* a call on the fixture or next to it has returned an assessment
ProbeScored == pc \in {"score_done", "score_again"} /\ ~IsRaise(result)

\* the adjustment the bucket rule gives for a balance and a volume
RatioAdjustment(balance, volume) ==
    LET ratio == Rat(balance[1] * RMax(volume, Rat(1, 1000))[2],
                     balance[2] * RMax(volume, Rat(1, 1000))[1])
    IN  IF GT(ratio, Rat(1, 10)) THEN -10
        ELSE IF LT(ratio, Rat(1, 100)) THEN 20
        ELSE 0

Clamp(x) == IF x < 0 THEN 0 ELSE IF x > 100 THEN 100 ELSE x

\* the score of the better bucket at each bound written with >= or <=
VolumeAt == (Rat(1000, 1) :> 10) @@ (Rat(100, 1) :> 20) @@ (Rat(10, 1) :> 40)
            @@ (One :> 60)
FrequencyAt == (One :> 10) @@ (Rat(1, 2) :> 20) @@ (Rat(1, 10) :> 40)
CompoundCountAt == (Rat(50, 1) :> 5) @@ (Rat(20, 1) :> 15) @@ (Rat(10, 1) :> 30)
                   @@ (Rat(5, 1) :> 50)
BalanceBaseAt == (Rat(100, 1) :> 5) @@ (Rat(10, 1) :> 15) @@ (One :> 30)
                 @@ (Rat(1, 10) :> 60)
FailureRateAt == (Zero :> 0) @@ (Rat(2, 100) :> 10) @@ (Rat(5, 100) :> 30)
                 @@ (Rat(1, 10) :> 60)
CounterpartyAt == (Rat(100, 1) :> 5) @@ (Rat(50, 1) :> 15) @@ (Rat(20, 1) :> 30)
                  @@ (Rat(10, 1) :> 50)
TimeSpanAt == (Rat(30, 1) :> 10) @@ (Rat(90, 1) :> 30) @@ (Rat(180, 1) :> 50)
              @@ (Rat(365, 1) :> 70)

\* an input at a bound written with >= or <= gets the better bucket
InclusiveBounds ==
    LET cs == result.component_scores
        At(table, x, score) == x \in DOMAIN table => score = table[x]
        balance == balance_data.current_balance_eth
    IN  /\ At(VolumeAt, tx_metrics.total_value_eth, cs.transaction_volume)
        /\ At(FrequencyAt, tx_metrics.transaction_frequency, cs.transaction_frequency)
        /\ At(CompoundCountAt, compound_data.compound_count, cs.protocol_experience)
        /\ balance \in DOMAIN BalanceBaseAt =>
             cs.balance_stability =
                 Clamp(BalanceBaseAt[balance]
                       + RatioAdjustment(balance, tx_metrics.total_value_eth))
        /\ At(FailureRateAt, tx_metrics.failed_transaction_rate, cs.failure_rate)
        /\ At(CounterpartyAt, tx_metrics.unique_counterparties, cs.counterparty_diversity)
        /\ At(TimeSpanAt, tx_metrics.time_span_days, cs.recent_activity)

\* C15 as claimed: an input exactly at any listed bucket bound gets the
\* better of the two adjacent bucket scores, the bound 0 of
\* transaction_frequency (0.7 rather than 1.0), compound_count (0.7 rather
\* than 0.95) and unique_counterparties (0.8 rather than 1.0) included.
C15_ThresholdBetterBucket ==
    ProbeScored =>
        /\ InclusiveBounds
        /\ tx_metrics.transaction_frequency = Zero =>
             result.component_scores.transaction_frequency = 70
        /\ compound_data.compound_count = Zero =>
             result.component_scores.protocol_experience = 70
        /\ tx_metrics.unique_counterparties = Zero =>
             result.component_scores.counterparty_diversity = 80

\* C15 as amended: an input exactly at a bound written with >= or <= gets
\* the better bucket (1000 ETH gives 0.1, frequency 0.1 gives 0.4, count 5
\* gives 0.5, balance 0.1 gives base 0.6, rate 0.02 gives 0.1, 10
\* counterparties give 0.5, 30 days give 0.1); the bound 0 of
\* transaction_frequency, compound_count and unique_counterparties is
\* exclusive, and an input of exactly 0 gets the worse bucket (1.0, 0.95, 1.0).
C15_InclusiveExceptZero ==
    ProbeScored =>
        /\ InclusiveBounds
        /\ tx_metrics.transaction_frequency = Zero =>
             result.component_scores.transaction_frequency = 100
        /\ compound_data.compound_count = Zero =>
             result.component_scores.protocol_experience = 95
        /\ tx_metrics.unique_counterparties = Zero =>
             result.component_scores.counterparty_diversity = 100

\* C15 witness: an assessment of a volume of exactly 1000 ETH and a
\* frequency of exactly 0
C15_Witness ==
    /\ pc = "score_again"
    /\ ~IsRaise(result)
    /\ tx_metrics.total_value_eth = Rat(1000, 1)
    /\ tx_metrics.transaction_frequency = Zero
    /\ result.component_scores.transaction_volume = 10
    /\ result.component_scores.transaction_frequency = 100

\* the balance bucket score of the bucket rule
BalanceBase(balance) ==
    IF GE(balance, Rat(100, 1)) THEN 5
    ELSE IF GE(balance, Rat(10, 1)) THEN 15
    ELSE IF GE(balance, One) THEN 30
    ELSE IF GE(balance, Rat(1, 10)) THEN 60
    ELSE 90

\* balance = r * max(volume, 0.001)
RatioIs(balance, volume, r) ==
    balance[1] * RMax(volume, Rat(1, 1000))[2] * r[2]
        = r[1] * balance[2] * RMax(volume, Rat(1, 1000))[1]

\* C19: the balance_stability score is clamp(base + adjustment, 0, 1) with
\* base the balance bucket score and adjustment -0.1 only for a ratio
\* balance / max(volume, 0.001) strictly above 0.1, +0.2 only for a ratio
\* strictly below 0.01, otherwise 0: a ratio of exactly 0.1 or exactly 0.01
\* leaves the base as it is; and with the volume the same, a larger balance
\* never gives a larger score.
C19_BalanceStability ==
    /\ [](ProbeScored =>
            LET balance == balance_data.current_balance_eth
                volume == tx_metrics.total_value_eth
                score == result.component_scores.balance_stability
            IN  /\ score = Clamp(BalanceBase(balance) + RatioAdjustment(balance, volume))
                /\ (RatioIs(balance, volume, Rat(1, 10))
                    \/ RatioIs(balance, volume, Rat(1, 100))) =>
                       score = BalanceBase(balance)
                /\ score < BalanceBase(balance) =>
                       balance[1] * RMax(volume, Rat(1, 1000))[2] * 10
                           > balance[2] * RMax(volume, Rat(1, 1000))[1]
                /\ score > BalanceBase(balance) =>
                       balance[1] * RMax(volume, Rat(1, 1000))[2] * 100
                           < balance[2] * RMax(volume, Rat(1, 1000))[1])
    /\ [][(/\ BothScored
           /\ tx_metrics'.total_value_eth = tx_metrics.total_value_eth
           /\ GT(balance_data'.current_balance_eth, balance_data.current_balance_eth)) =>
              result'.component_scores.balance_stability
                  <= result.component_scores.balance_stability]_vars

\* C19 witness: the second call, on a balance changed to 0.5 ETH with a volume
\* of 5 ETH (ratio exactly 0.1), scored the base 0.6
C19_Witness ==
    /\ pc = "score_again"
    /\ ~IsRaise(result)
    /\ balance_data.current_balance_eth = Rat(1, 2)
    /\ tx_metrics.total_value_eth = Rat(5, 1)
    /\ result.component_scores.balance_stability = 60

-----------------------------------------------------------------------------
(* Claims about the metrics normalizer *)

\* the fields of TransactionMetrics
MetricsFields == {"total_transactions", "avg_transaction_value", "transaction_frequency",
                  "failed_transactions", "failed_transaction_rate",
                  "unique_counterparties", "time_span_days", "total_value_eth"}

\* C13: for an empty transaction list analyze_transaction_patterns raises
\* nothing and returns a record in which every field of TransactionMetrics
\* is present and is 0.
C13_EmptyFullyDefined ==
    /\ (pc = "analyze" /\ tx_data.transactions = <<>>) =>
           ~IsRaise(analyze_transaction_patterns(tx_data.transactions))
    /\ (pc = "fetch_compound" /\ tx_data.transactions = <<>>) =>
           /\ DOMAIN tx_metrics = MetricsFields
           /\ \A k \in DOMAIN tx_metrics : tx_metrics[k] = Zero

-----------------------------------------------------------------------------
(* Claims about the summary *)

\* the records of the run that are not Failed
Completed == SelectSeq(results, LAMBDA r : ~IsFailed(r))

\* C16: in the summary printed after a batch run, succeeded + failed =
\* processed = the number of input wallets; failed is the number of Failed
\* records, whatever their error text, the empty text included; mean,
\* median, min and max of risk_score and the category distribution are those
\* of the records that are not Failed, so that 999 never enters them.
C16_SummaryCounts ==
    pc = "done" =>
        LET scores == [k \in 1..Len(Completed) |-> Completed[k].risk_score] IN
        /\ summary.processed = Len(wallet_addresses)
        /\ summary.successful + summary.failed = summary.processed
        /\ summary.failed = Len(results) - Len(Completed)
        /\ Len(Completed) = 0 => "mean" \notin DOMAIN summary
        /\ Len(Completed) > 0 =>
             /\ "mean" \in DOMAIN summary
             /\ EQ(summary.mean, Rat(SumOver(scores, DOMAIN scores), Len(scores)))
             /\ EQ(summary.median, Median(scores))
             /\ summary.min = Sorted(scores)[1]
             /\ summary.max = Sorted(scores)[Len(scores)]
             /\ summary.max # 999
             /\ DOMAIN summary.risk_dist = {Completed[k].risk_category : k \in 1..Len(Completed)}
             /\ \A c \in DOMAIN summary.risk_dist :
                  summary.risk_dist[c].count =
                      Cardinality({k \in 1..Len(Completed) : Completed[k].risk_category = c})

-----------------------------------------------------------------------------
(* Claims about a batch in which every 10th transaction fetch fails *)

\* the wallets whose transaction fetch fails: the 10th, the 20th, ...
Designated == {k \in 1..Len(wallet_addresses) : k % 10 = 0}

TxFetchErrors == {"Transaction fetch error: " \o m :
                    m \in ProviderErrors \cup {"Connection aborted"}}

\* what the provider, the normalizer and the engine give for an address when
\* every request is answered
Fetched(a) ==
    LET answer == [status |-> "1", result |-> Chain(a)] IN
    [metrics |-> analyze_transaction_patterns(Chain(a)),
     compound |-> get_compound_interactions(a, answer),
     balance |-> get_wallet_balance_history(a, [web3 |-> BalanceOf(a)])]

\* neither the normalizer nor the protocol filter nor the engine raises for a
GoodWallet(a) ==
    /\ ~IsRaise(Fetched(a).metrics)
    /\ ~IsRaise(Fetched(a).compound)
    /\ ~IsRaise(calculate_risk_score(a, Fetched(a).metrics, Fetched(a).compound,
                                     Fetched(a).balance, FALSE))

\* the run has ended, the transaction fetch of every 10th wallet failed and
\* nothing else did
OnlyEveryTenthFailed ==
    /\ pc = "done"
    /\ \A k \in 1..Len(wallet_addresses) : GoodWallet(wallet_addresses[k])
    /\ faults = Cardinality(Designated)
    /\ \A k \in Designated : /\ IsFailed(results[k])
                             /\ results[k].error \in TxFetchErrors

FailedRows == {k \in 1..Len(output_file.rows) : output_file.rows[k].error # ""}

\* every Failed row has score 999, every other row is the engine's assessment
\* of that wallet, and the checkpoint holds the rows up to the last multiple
\* of 10
RowsAndCheckpoint ==
    LET N == Len(wallet_addresses) IN
    /\ Len(output_file.rows) = N
    /\ FailedRows = Designated
    /\ \A k \in FailedRows : output_file.rows[k].risk_score = 999
    /\ \A k \in (1..N) \ Designated :
         LET a == wallet_addresses[k] IN
         \E rounded_below \in BOOLEAN :
            results[k] = calculate_risk_score(a, Fetched(a).metrics, Fetched(a).compound,
                                              Fetched(a).balance, rounded_below)
    /\ IF N < 10 THEN temp_file = NoFile
       ELSE /\ temp_file.exists
            /\ temp_file.rows = SubSeq(output_file.rows, 1, 10 * (N \div 10))

-----------------------------------------------------------------------------
(* Claims about the order of the steps of one wallet *)

\* the steps that call the Chain Data Provider, and those that run the
\* Metrics Normalizer and the Scoring Engine
ProviderSteps == {"fetch_tx", "fetch_compound", "fetch_balance"}
ScoringSteps == {"analyze", "score"}

\* during the steps of one wallet
SameWallet == i' = i /\ pc' # "interrupted"

=============================================================================
